---- MODULE Spec2Model ----
(***************************************************************************)
(* Model of UbuntuImageFetcher (src/ubuntu_image_fetcher.py): the          *)
(* fetch-and-admit pipeline download_image with its helpers, the ledger    *)
(* downloaded_hashes and the download directory.                           *)
(*                                                                         *)
(* Text is modelled as sequences of one-character strings, so that the     *)
(* substring tests, splits and joins of the code are computed and not      *)
(* assumed.  A few fixed words that the code never looks inside are kept   *)
(* as one element ("Fetched_Images", "filename=", a media type).           *)
(* Sizes are scaled: a chunk is chunk_size bytes and the ceiling is        *)
(* max_file_size bytes, with max_file_size a multiple of chunk_size as in  *)
(* the source (50 MiB = 6400 * 8192).                                      *)
(***************************************************************************)
EXTENDS Integers, Sequences, FiniteSets, TLC

\* ------------------------------------------------------------------ bounds
\* download_image calls per run of the model
MaxCalls == 2
\* seconds the wall clock may advance
MaxClock == 1
\* fetchers constructed after the first
MaxRestarts == 1
\* URLs entered in multiple_urls_mode
MaxBatch == 2

\* ------------------------------------------------------- program constants
\* iter_content(chunk_size=8192), scaled
chunk_size == 2
\* self.max_file_size = 50 * 1024 * 1024, scaled to two chunks
max_file_size == 4
\* len(filename) < 255
name_limit == 255

download_dir == <<"Fetched_Images">>
metadata_name ==
  <<"d","o","w","n","l","o","a","d","_","m","e","t","a","d","a","t","a",".","j","s","o","n">>

\* os.path.join(self.download_dir, name)
path_join(dir, name) == dir \o <<"/">> \o name

metadata_file == path_join(download_dir, metadata_name)

allowed_content_types ==
  {"image/jpeg", "image/jpg", "image/png", "image/gif",
   "image/bmp", "image/webp", "image/svg+xml", "image/tiff"}

\* ------------------------------------------------------------ text helpers
Min(a, b) == IF a < b THEN a ELSE b

\* sub in s
Contains(s, sub) ==
  \E i \in 0..(Len(s) - Len(sub)) : SubSeq(s, i + 1, i + Len(sub)) = sub

\* s.rfind(c), 0 when absent (positions count from 1)
RFind(s, c) ==
  IF \E i \in 1..Len(s) : s[i] = c
  THEN CHOOSE i \in 1..Len(s) : s[i] = c /\ \A j \in (i+1)..Len(s) : s[j] # c
  ELSE 0

\* s.find(c), 0 when absent
Find(s, c) ==
  IF \E i \in 1..Len(s) : s[i] = c
  THEN CHOOSE i \in 1..Len(s) : s[i] = c /\ \A j \in 1..(i-1) : s[j] # c
  ELSE 0

\* s.strip(chars)
Strip(s, chars) ==
  LET keep == {i \in 1..Len(s) : s[i] \notin chars}
  IN IF keep = {} THEN <<>>
     ELSE LET lo == CHOOSE i \in keep : \A j \in keep : i <= j
              hi == CHOOSE i \in keep : \A j \in keep : j <= i
          IN SubSeq(s, lo, hi)

Digit(n) == <<"0","1","2","3","4","5","6","7","8","9">>[n + 1]

\* str(n) for n >= 0
RECURSIVE Str(_)
Str(n) == IF n < 10 THEN <<Digit(n)>> ELSE Str(n \div 10) \o <<Digit(n % 10)>>

\* "%02d"
Pad2(n) == <<Digit((n \div 10) % 10), Digit(n % 10)>>

DigitValue(c) ==
  CASE c = "0" -> 0 [] c = "1" -> 1 [] c = "2" -> 2 [] c = "3" -> 3 [] c = "4" -> 4
    [] c = "5" -> 5 [] c = "6" -> 6 [] c = "7" -> 7 [] c = "8" -> 8 [] c = "9" -> 9

DigitChars == {"0","1","2","3","4","5","6","7","8","9"}

\* int(s) succeeds, for the header values of the model: optional surrounding
\* blanks, then one or more digits
IsIntLiteral(s) ==
  LET t == Strip(s, {" "})
  IN Len(t) > 0 /\ \A i \in 1..Len(t) : t[i] \in DigitChars

RECURSIVE DigitsValue(_)
DigitsValue(t) ==
  IF t = <<>> THEN 0
  ELSE 10 * DigitsValue(SubSeq(t, 1, Len(t) - 1)) + DigitValue(t[Len(t)])

\* int(s), for s with IsIntLiteral(s)
ParseInt(s) == DigitsValue(Strip(s, {" "}))

\* str.lower() on the words the model uses
Lower(w) ==
  CASE w = "IMAGE/PNG" -> "image/png"
    [] w = "LOCALHOST" -> "localhost"
    [] w = "HTTP"      -> "http"
    [] w = "HTTPS"     -> "https"
    [] OTHER           -> w

\* ------------------------------------------------------------------- state
VARIABLES
  pc,                 \* position of the current download_image call ("idle": none)
  url,                \* argument of the current call
  server,             \* what the server of this URL answers to this call
  response,           \* GET response of the call, NoResponse before it
  bytes_read,         \* body bytes the call has taken from the connection
  content_hash,
  filename,
  filepath,
  downloaded_size,
  created,            \* paths this call has opened for writing
  netlog,             \* requests issued by this call, in order
  url_checked,        \* is_valid_url has been evaluated in this call
  result,             \* outcome of the call: "admitted" is True, all others False
  downloaded_hashes,  \* self.downloaded_hashes, the in-memory ledger
  disk,               \* path -> file content, the files that exist
  clock,              \* datetime.now(), in seconds
  calls,              \* download_image calls started
  admitted,           \* bodies admitted by this fetcher instance
  before,             \* ledger, disk and admitted bodies when the current call started
  startup,            \* how __init__ found the metadata file: "missing", "loaded", "unreadable"
  restarts,           \* fetchers constructed after the first
  appended,           \* ledger entries appended by calls that returned, over all runs
  filed,              \* ledger entries the metadata file has held at some time
  other,              \* a second download_image call running on the same fetcher
  batch               \* multiple_urls_mode: urls, position, successful, results so far

vars == <<pc, url, server, response, bytes_read, content_hash, filename, filepath,
          downloaded_size, created, netlog, url_checked, result,
          downloaded_hashes, disk, clock, calls, admitted, before,
          startup, restarts, appended, filed, other, batch>>

\* what a step of one sequential call leaves alone
Extra == <<startup, restarts, appended, filed, other, batch>>

\* ---------------------------------------------------------------- headers
HeaderNames == {"Content-Type", "Content-Length", "Content-Disposition"}

MkHeaders(S, ct, cl, cd) ==
  [n \in S |-> CASE n = "Content-Type" -> ct
                 [] n = "Content-Length" -> cl
                 [] OTHER -> cd]

\* response.headers.get(name, default)
HeaderGet(h, name, default) == IF name \in DOMAIN h THEN h[name] ELSE default

\* response.headers.get('Content-Type', '').lower().split(';')[0]
media_type(h) ==
  LET v == HeaderGet(h, "Content-Type", <<>>)
      low == [i \in 1..Len(v) |-> Lower(v[i])]
      semi == Find(low, ";")
  IN IF semi = 0 THEN low ELSE SubSeq(low, 1, semi - 1)

\* ------------------------------------------------------------- is_valid_url
local_hosts == {"localhost", "127.0.0.1", "0.0.0.0"}

\* the host test left out
is_valid_url_any_host(u) == Lower(u.scheme) \in {"http", "https"}

\* urlparse(url).scheme and .hostname are lower-cased by urlparse
is_valid_url(u) ==
  /\ Lower(u.scheme) \in {"http", "https"}
  /\ Lower(u.host) \notin local_hosts

\* ------------------------------------------------ validate_response_headers
\* the branch of validate_response_headers that returns False, "ok" if none
header_rejection(h) ==
  LET content_type == media_type(h)
      content_length == HeaderGet(h, "Content-Length", <<>>)
  IN IF content_type # <<>> /\ ~(\E a \in allowed_content_types : content_type = <<a>>)
     THEN "content-type"
     ELSE IF /\ "Content-Length" \in DOMAIN h
             /\ content_length # <<>>
             /\ IsIntLiteral(content_length)
             /\ ParseInt(content_length) > max_file_size
          THEN "too-large"
          ELSE "ok"

validate_response_headers(h) == header_rejection(h) = "ok"

\* ------------------------------------------------- calculate_content_hash
\* SHA-256 as an injective code of the byte sequence (bytes are 1 or 2)
RECURSIVE sha256(_)
sha256(b) == IF b = <<>> THEN 1 ELSE 3 * sha256(SubSeq(b, 1, Len(b) - 1)) + b[Len(b)]

\* hasher.update(response.content); hasher.hexdigest()
calculate_content_hash(content) == Str(sha256(content))

\* ----------------------------------------------------------- is_duplicate
\* a record counts only when its URL matches too
is_duplicate_by_url(h, u) ==
  \E i \in 1..Len(downloaded_hashes) :
    downloaded_hashes[i].hash = h /\ downloaded_hashes[i].url = u

\* no record is ever a match
is_duplicate_never(h, u) == FALSE

\* the loop returns on its first record
is_duplicate_first_record(h, u) ==
  Len(downloaded_hashes) > 0 /\ downloaded_hashes[1].hash = h

is_duplicate(h, u) ==
  \E i \in 1..Len(downloaded_hashes) : downloaded_hashes[i].hash = h

\* ------------------------------------------------------- is_safe_filename
dangerous_chars ==
  {<<".", ".">>, <<"/">>, <<"\\">>, <<":">>, <<"*">>, <<"?">>, <<"\"">>,
   <<"<">>, <<">">>, <<"|">>}

\* '..' missing from the list
is_safe_filename_no_dotdot(fname) ==
  /\ ~(\E d \in dangerous_chars \ {<<".", ".">>} : Contains(fname, d))
  /\ Len(fname) < name_limit

is_safe_filename(fname) ==
  /\ ~(\E d \in dangerous_chars : Contains(fname, d))
  /\ Len(fname) < name_limit

\* ------------------------------------------ get_extension_from_content_type
get_extension_from_content_type(content_type) ==
  CASE content_type = <<"image/jpeg">>    -> <<".", "j", "p", "g">>
    [] content_type = <<"image/jpg">>     -> <<".", "j", "p", "g">>
    [] content_type = <<"image/png">>     -> <<".", "p", "n", "g">>
    [] content_type = <<"image/gif">>     -> <<".", "g", "i", "f">>
    [] content_type = <<"image/bmp">>     -> <<".", "b", "m", "p">>
    [] content_type = <<"image/webp">>    -> <<".", "w", "e", "b", "p">>
    [] content_type = <<"image/svg+xml">> -> <<".", "s", "v", "g">>
    [] content_type = <<"image/tiff">>    -> <<".", "t", "i", "f", "f">>
    [] OTHER                              -> <<".", "j", "p", "g">>

\* ------------------------------------------------------- extract_filename
\* datetime.now().strftime('%Y%m%d_%H%M%S') at second t of the run's day
strftime(t) ==
  <<"2","0","2","6","0","1","0","1","_">>
    \o Pad2(t \div 3600) \o Pad2((t \div 60) % 60) \o Pad2(t % 60)

\* os.path.basename(path)
basename(path) == SubSeq(path, RFind(path, "/") + 1, Len(path))

\* content_disposition.split('filename=')[1].strip('"\'')
disposition_filename(cd) ==
  LET first == Find(cd, "filename=")
      rest == SubSeq(cd, first + 1, Len(cd))
      next == Find(rest, "filename=")
      part == IF next = 0 THEN rest ELSE SubSeq(rest, 1, next - 1)
  IN Strip(part, {"\"", "'"})

\* the URL segment tried before the header
extract_filename_url_first(u, h, now) ==
  LET content_disposition == HeaderGet(h, "Content-Disposition", <<>>)
      from_header == disposition_filename(content_disposition)
      from_url == basename(u.path)
      generated == <<"i","m","a","g","e","_">> \o strftime(now)
                     \o get_extension_from_content_type(media_type(h))
      fallback == <<"s","a","f","e","_","i","m","a","g","e","_">> \o strftime(now)
                     \o <<".", "j", "p", "g">>
  IN IF from_url # <<>> /\ Contains(from_url, <<".">>)
     THEN IF is_safe_filename(from_url) THEN from_url ELSE fallback
     ELSE IF /\ Contains(content_disposition, <<"filename=">>)
             /\ from_header # <<>>
             /\ is_safe_filename(from_header)
          THEN from_header
          ELSE generated

extract_filename(u, h, now) ==
  LET content_disposition == HeaderGet(h, "Content-Disposition", <<>>)
      from_header == disposition_filename(content_disposition)
      from_url == basename(u.path)
      generated == <<"i","m","a","g","e","_">> \o strftime(now)
                     \o get_extension_from_content_type(media_type(h))
      candidate == IF from_url = <<>> \/ ~Contains(from_url, <<".">>)
                  THEN generated ELSE from_url
      fallback == <<"s","a","f","e","_","i","m","a","g","e","_">> \o strftime(now)
                     \o <<".", "j", "p", "g">>
  IN IF /\ Contains(content_disposition, <<"filename=">>)
        /\ from_header # <<>>
        /\ is_safe_filename(from_header)
     THEN from_header
     ELSE IF is_safe_filename(candidate) THEN candidate ELSE fallback

\* ---------------------------------------------------- get_unique_filepath
\* os.path.splitext(filename): the last dot that follows a character other than a dot
splitext(fname) ==
  LET dot == RFind(fname, ".")
  IN IF dot > 1 /\ \E i \in 1..(dot - 1) : fname[i] # "."
     THEN <<SubSeq(fname, 1, dot - 1), SubSeq(fname, dot, Len(fname))>>
     ELSE <<fname, <<>>>>

\* os.path.exists(path)
exists(path) == path \in DOMAIN disk

\* the numbered names counted from 0
get_unique_filepath_from_zero(fname) ==
  LET first == path_join(download_dir, fname)
      parts == splitext(fname)
      free == CHOOSE k \in 0..(Cardinality(DOMAIN disk) + 1) :
                /\ path_join(download_dir, parts[1] \o <<"_">> \o Str(k) \o parts[2])
                      \notin DOMAIN disk
                /\ \A j \in 0..(k - 1) :
                      path_join(download_dir, parts[1] \o <<"_">> \o Str(j) \o parts[2])
                        \in DOMAIN disk
  IN IF first \notin DOMAIN disk THEN first
     ELSE path_join(download_dir, parts[1] \o <<"_">> \o Str(free) \o parts[2])

\* the name handed back without looking at the directory
get_unique_filepath_no_probe(fname) == path_join(download_dir, fname)

RECURSIVE probe(_, _, _)
probe(name, ext, counter) ==
  LET candidate == path_join(download_dir, name \o <<"_">> \o Str(counter) \o ext)
  IN IF exists(candidate) THEN probe(name, ext, counter + 1) ELSE candidate

get_unique_filepath(fname) ==
  LET first == path_join(download_dir, fname)
      parts == splitext(fname)
  IN IF ~exists(first) THEN first ELSE probe(parts[1], parts[2], 1)

\* -------------------------------------------------- load_download_history
\* a file of the directory holds bytes, or a JSON document (the ledger), or the
\* torn start of one
Bytes(b) == [kind |-> "bytes", data |-> b, entries |-> <<>>]
Json(l)  == [kind |-> "json", data |-> <<>>, entries |-> l]
Torn     == [kind |-> "torn", data |-> <<>>, entries |-> <<>>]
\* a file of bytes that are not text
Binary   == [kind |-> "binary", data |-> <<>>, entries |-> <<>>]

\* readable: open and read raise no IOError; a file that is no JSON document raises
\* JSONDecodeError; both are passed over and [] is returned
load_download_history(d, readable) ==
  IF metadata_file \in DOMAIN d /\ readable /\ d[metadata_file].kind = "json"
  THEN d[metadata_file].entries
  ELSE <<>>

\* json.load reads the file as text: bytes that are no text in the locale's encoding
\* (image data, a garbled file) raise UnicodeDecodeError, a ValueError that is neither
\* JSONDecodeError nor IOError and leaves load_download_history and __init__
load_download_history_raises(d, readable) ==
  /\ metadata_file \in DOMAIN d
  /\ readable
  /\ d[metadata_file].kind \in {"bytes", "binary"}

\* what __init__ found at the metadata path
startup_kind(d, readable) ==
  CASE metadata_file \notin DOMAIN d -> "missing"
    [] metadata_file \in DOMAIN d /\ ~readable -> "unreadable"
    [] metadata_file \in DOMAIN d /\ readable /\ d[metadata_file].kind = "json" -> "loaded"
    [] metadata_file \in DOMAIN d /\ readable /\ d[metadata_file].kind = "torn" -> "undecodable"
    [] OTHER -> "raised"

Range(q) == {q[i] : i \in 1..Len(q)}

\* datetime.now().isoformat()
isoformat(t) ==
  <<"2026-01-01", "T">> \o Pad2(t \div 3600) \o <<":">> \o Pad2((t \div 60) % 60)
    \o <<":">> \o Pad2(t % 60)

\* ------------------------------------------------------------ environment
Url(scheme, host, path) == [scheme |-> scheme, host |-> host, path |-> path]

Answer(status, headers, body) == [status |-> status, headers |-> headers, body |-> body]

NoHeaders == MkHeaders({}, <<>>, <<>>, <<>>)
NoUrl == Url("", "", <<>>)
NoResponse == Answer(0, NoHeaders, <<>>)

EmptyBody == <<>>
SmallBody == <<1, 2>>
FullBody  == [i \in 1..max_file_size |-> 1]
HugeBody  == [i \in 1..(max_file_size + chunk_size + 1) |-> 2]

png == <<"image/png">>
html == <<"text/html">>

safe_disposition ==
  <<"attachment; ", "filename=", "\"", "d", ".", "p", "n", "g", "\"">>
unsafe_disposition ==
  <<"attachment; ", "filename=", "\"", ".", ".", "/", "e", ".", "p", "n", "g", "\"">>

\* what a server may answer to the HEAD and to the GET of one call
Servers ==
  { Answer(200, MkHeaders({"Content-Type", "Content-Length"}, png, Str(Len(SmallBody)), <<>>),
           SmallBody),
    Answer(200, NoHeaders, FullBody),
    Answer(200, MkHeaders({"Content-Type", "Content-Disposition"},
                          <<"IMAGE/PNG", ";", " charset=binary">>, <<>>, safe_disposition),
           SmallBody),
    Answer(200, MkHeaders({"Content-Type", "Content-Disposition"}, png, <<>>, unsafe_disposition),
           FullBody),
    Answer(200, MkHeaders({"Content-Type"}, html, <<>>, <<>>), SmallBody),
    Answer(404, MkHeaders({"Content-Type"}, html, <<>>, <<>>), SmallBody),
    Answer(404, NoHeaders, EmptyBody),
    Answer(500, MkHeaders({"Content-Length"}, <<>>, Str(Len(HugeBody)), <<>>), HugeBody),
    Answer(200, MkHeaders({"Content-Type", "Content-Length"}, png, Str(Len(HugeBody)), <<>>),
           HugeBody),
    Answer(200, MkHeaders({"Content-Type", "Content-Length"}, png, Str(Len(SmallBody)), <<>>),
           HugeBody),
    Answer(200, MkHeaders({"Content-Type"}, png, <<>>, <<>>), HugeBody),
    Answer(200, MkHeaders({"Content-Type", "Content-Length"}, png, <<"a", "b", "c">>, <<>>),
           SmallBody),
    Answer(200, MkHeaders({"Content-Type"}, png, <<>>, <<>>), EmptyBody) }

cat_png == <<"c", "a", "t", ".", "p", "n", "g">>

Urls ==
  { Url("https", "example.com", <<"/">> \o cat_png),
    Url("http", "example.com", <<"/", "i", "m", "g">>),
    Url("http", "localhost", <<"/", "i", "m", "a", "g", "e", ".", "j", "p", "g">>),
    Url("ftp", "example.com", <<"/">> \o cat_png) }

\* what requests raises for a request: Timeout, ConnectionError, TooManyRedirects,
\* another RequestException
RequestFailures == {"timeout", "connection-error", "too-many-redirects", "request-error"}
\* what requests raises while the body is read: ConnectionError (a read timeout
\* included), another RequestException (ChunkedEncodingError, ContentDecodingError)
ReadFailures == {"connection-error", "request-error"}

Put(d, p, c) == [q \in (DOMAIN d) \cup {p} |-> IF q = p THEN c ELSE d[q]]
Remove(d, p) == [q \in (DOMAIN d) \ {p} |-> d[q]]
NoFiles == Remove(Put(<<>>, metadata_file, Torn), metadata_file)

Entry(h, u, path, size, now) ==
  [hash |-> h, url |-> u, filepath |-> path, file_size |-> size,
   download_date |-> isoformat(now)]

\* the directory an earlier run of the program left: one admitted image and its ledger
EarlierRun ==
  LET path == path_join(download_dir, cat_png)
      entry == Entry(calculate_content_hash(SmallBody),
                     Url("https", "example.com", <<"/">> \o cat_png), path, Len(SmallBody), 0)
  IN Put(Put(NoFiles, path, Bytes(SmallBody)), metadata_file, Json(<<entry>>))

InitDisks == {NoFiles, EarlierRun}

\* no second call, no batch
NoCall == [pc |-> "none", url |-> NoUrl, headers |-> NoHeaders, body |-> <<>>,
           content_hash |-> <<>>, seen |-> <<>>, filepath |-> <<>>, result |-> "none"]
NoBatch == [urls |-> <<>>, pos |-> 0, successful |-> 0, results |-> <<>>, finished |-> FALSE]

Snapshot == [ledger |-> downloaded_hashes, disk |-> disk, admitted |-> admitted]

\* ------------------------------------------------------------------- Init
\* __init__: the ledger is read from the metadata file of the directory
Init ==
  /\ disk \in InitDisks
  /\ downloaded_hashes = load_download_history(disk, TRUE)
  /\ startup = startup_kind(disk, TRUE)
  /\ restarts = 0
  /\ appended = Range(downloaded_hashes)
  /\ filed = Range(downloaded_hashes)
  /\ other = NoCall
  /\ batch = NoBatch
  /\ pc = "idle"
  /\ url = NoUrl
  /\ server = NoResponse
  /\ response = NoResponse
  /\ bytes_read = 0
  /\ content_hash = <<>>
  /\ filename = <<>>
  /\ filepath = <<>>
  /\ downloaded_size = 0
  /\ created = {}
  /\ netlog = <<>>
  /\ url_checked = FALSE
  /\ result = "none"
  /\ clock = 0
  /\ calls = 0
  /\ admitted = {}
  /\ before = [ledger |-> downloaded_hashes, disk |-> disk, admitted |-> {}]

\* --------------------------------------------------------- download_image
\* the locals a step leaves alone
Locals == <<response, bytes_read, content_hash, filename, filepath, downloaded_size>>
World == <<downloaded_hashes, disk, admitted, created>>
Frame == <<url, server, clock, calls, before>>

\* the call returns or falls into an except clause with outcome r
Finish(r) == pc' = "done" /\ result' = r

\* download_image(url) is called; the server's answer to this call is fixed
Call(u, s) ==
  /\ UNCHANGED Extra
  /\ pc = "idle"
  /\ calls < MaxCalls
  /\ pc' = "check_url"
  /\ url' = u
  /\ server' = s
  /\ calls' = calls + 1
  /\ before' = Snapshot
  /\ result' = "none"
  /\ UNCHANGED <<Locals, World, netlog, url_checked, clock>>

\* if not self.is_valid_url(url): return False
CheckUrl ==
  /\ UNCHANGED Extra
  /\ pc = "check_url"
  /\ url_checked' = TRUE
  /\ IF is_valid_url(url)
     THEN pc' = "head" /\ UNCHANGED result
     ELSE Finish("invalid-url")
  /\ UNCHANGED <<Locals, World, Frame, netlog>>

\* requests.head raises a RequestException, which is passed over
HeadFails ==
  /\ UNCHANGED Extra
  /\ pc = "head"
  /\ netlog' = Append(netlog, "HEAD")
  /\ pc' = "get"
  /\ UNCHANGED <<Locals, World, Frame, url_checked, result>>

\* requests.head returns; its headers are validated whatever its status
HeadAnswers ==
  /\ UNCHANGED Extra
  /\ pc = "head"
  /\ netlog' = Append(netlog, "HEAD")
  /\ IF validate_response_headers(server.headers)
     THEN pc' = "get" /\ UNCHANGED result
     ELSE Finish(header_rejection(server.headers))
  /\ UNCHANGED <<Locals, World, Frame, url_checked>>

\* requests.get raises
GetFails(e) ==
  /\ UNCHANGED Extra
  /\ pc = "get"
  /\ netlog' = Append(netlog, "GET")
  /\ Finish(e)
  /\ UNCHANGED <<Locals, World, Frame, url_checked>>

\* response.raise_for_status() raises HTTPError for 4xx and 5xx
raise_for_status(r) == r.status >= 400

\* requests.get returns; raise_for_status, then validate_response_headers
GetAnswers ==
  /\ UNCHANGED Extra
  /\ pc = "get"
  /\ netlog' = Append(netlog, "GET")
  /\ IF raise_for_status(server)
     THEN Finish("http-status") /\ UNCHANGED response
     ELSE IF ~validate_response_headers(server.headers)
          THEN Finish(header_rejection(server.headers)) /\ UNCHANGED response
          ELSE pc' = "hash" /\ response' = server /\ UNCHANGED result
  /\ UNCHANGED <<bytes_read, content_hash, filename, filepath, downloaded_size,
                 World, Frame, url_checked>>

\* calculate_content_hash: response.content takes the next piece of the body
ReadChunk ==
  /\ UNCHANGED Extra
  /\ pc = "hash"
  /\ bytes_read < Len(response.body)
  /\ bytes_read' = Min(bytes_read + chunk_size, Len(response.body))
  /\ UNCHANGED <<pc, result, response, content_hash, filename, filepath, downloaded_size,
                 World, Frame, netlog, url_checked>>

\* the connection fails while response.content reads the body
ReadFails(e) ==
  /\ UNCHANGED Extra
  /\ pc = "hash"
  /\ bytes_read < Len(response.body)
  /\ Finish(e)
  /\ UNCHANGED <<Locals, World, Frame, netlog, url_checked>>

\* the body is complete: hexdigest, then is_duplicate
HashContent ==
  /\ UNCHANGED Extra
  /\ pc = "hash"
  /\ bytes_read = Len(response.body)
  /\ content_hash' = calculate_content_hash(response.body)
  /\ IF is_duplicate(content_hash', url)
     THEN Finish("duplicate")
     ELSE pc' = "name" /\ UNCHANGED result
  /\ UNCHANGED <<response, bytes_read, filename, filepath, downloaded_size,
                 World, Frame, netlog, url_checked>>

\* filename = self.extract_filename(url, response); filepath = self.get_unique_filepath(filename)
ResolveName ==
  /\ UNCHANGED Extra
  /\ pc = "name"
  /\ filename' = extract_filename(url, response.headers, clock)
  /\ filepath' = get_unique_filepath(filename')
  /\ pc' = "length"
  /\ UNCHANGED <<response, bytes_read, content_hash, downloaded_size, result,
                 World, Frame, netlog, url_checked>>

\* the check in the loop left out
exceeds_limit_never(size) == FALSE

\* if downloaded_size > self.max_file_size
exceeds_limit(size) == size > max_file_size

\* file_size = int(response.headers.get('Content-Length', 0)): a ValueError is
\* caught by "except Exception"; then the declared size is checked
CheckLength ==
  /\ UNCHANGED Extra
  /\ pc = "length"
  /\ LET content_length == HeaderGet(response.headers, "Content-Length", <<"0">>)
     IN IF ~IsIntLiteral(content_length)
        THEN Finish("unexpected")
        ELSE IF ParseInt(content_length) > max_file_size
             THEN Finish("too-large")
             ELSE pc' = "open" /\ UNCHANGED result
  /\ UNCHANGED <<Locals, World, Frame, netlog, url_checked>>

\* open(filepath, 'wb') creates or truncates the file
OpenFile ==
  /\ UNCHANGED Extra
  /\ pc = "open"
  /\ disk' = Put(disk, filepath, Bytes(<<>>))
  /\ created' = created \cup {filepath}
  /\ pc' = "write"
  /\ UNCHANGED <<Locals, downloaded_hashes, admitted, Frame, netlog, url_checked, result>>

\* open(filepath, 'wb') raises IOError
OpenFails ==
  /\ UNCHANGED Extra
  /\ pc = "open"
  /\ Finish("io-error")
  /\ UNCHANGED <<Locals, World, Frame, netlog, url_checked>>

\* one turn of the loop over response.iter_content(chunk_size): write, count, check
WriteChunk ==
  /\ UNCHANGED Extra
  /\ pc = "write"
  /\ downloaded_size < Len(response.body)
  /\ LET chunk == SubSeq(response.body, downloaded_size + 1,
                         Min(downloaded_size + chunk_size, Len(response.body)))
         written == Put(disk, filepath, Bytes(disk[filepath].data \o chunk))
     IN /\ downloaded_size' = downloaded_size + Len(chunk)
        /\ IF exceeds_limit(downloaded_size')
           THEN disk' = Remove(written, filepath) /\ Finish("too-large")
           ELSE disk' = written /\ UNCHANGED <<pc, result>>
  /\ UNCHANGED <<response, bytes_read, content_hash, filename, filepath,
                 downloaded_hashes, admitted, created, Frame, netlog, url_checked>>

\* f.write(chunk) raises IOError: the except clause reports it and nothing is removed
WriteFails ==
  /\ UNCHANGED Extra
  /\ pc = "write"
  /\ downloaded_size < Len(response.body)
  /\ Finish("io-error")
  /\ UNCHANGED <<Locals, World, Frame, netlog, url_checked>>

\* the loop ends: actual_size = os.path.getsize(filepath), an empty file is removed
VerifyFile ==
  /\ UNCHANGED Extra
  /\ pc = "write"
  /\ downloaded_size = Len(response.body)
  /\ IF Len(disk[filepath].data) = 0
     THEN disk' = Remove(disk, filepath) /\ Finish("empty")
     ELSE pc' = "save" /\ UNCHANGED <<disk, result>>
  /\ UNCHANGED <<Locals, downloaded_hashes, admitted, created, Frame, netlog, url_checked>>

\* the entry kept in memory only when the file was written
ledger_after_save_if_written(outcome, metadata) ==
  IF outcome = "saved" THEN Append(downloaded_hashes, metadata) ELSE downloaded_hashes

\* self.downloaded_hashes.append(metadata) comes before the try that writes the file
ledger_after_save(outcome, metadata) == Append(downloaded_hashes, metadata)

\* save_download_metadata, then return True.  The entry is appended in memory; the
\* metadata file is rewritten ("saved"), cannot be opened ("unopened") or is left torn
\* by a write that fails after the file was truncated ("torn").
SaveMetadata(outcome) ==
  /\ pc = "save"
  /\ LET metadata == Entry(content_hash, url, filepath, Len(disk[filepath].data), clock)
     IN /\ downloaded_hashes' = ledger_after_save(outcome, metadata)
        /\ appended' = appended \cup {metadata}
        /\ filed' = IF outcome = "saved" THEN filed \cup Range(downloaded_hashes')
                      ELSE filed
        /\ disk' = CASE outcome = "saved"    -> Put(disk, metadata_file, Json(downloaded_hashes'))
                     [] outcome = "unopened" -> disk
                     [] outcome = "torn"     -> Put(disk, metadata_file, Torn)
  /\ admitted' = admitted \cup {response.body}
  /\ Finish("admitted")
  /\ UNCHANGED <<Locals, created, Frame, netlog, url_checked, startup, restarts, other, batch>>

\* download_image has returned; its locals are gone
ReturnToCaller ==
  /\ pc = "done"
  /\ pc' = "idle"
  /\ url' = NoUrl
  /\ server' = NoResponse
  /\ response' = NoResponse
  /\ bytes_read' = 0
  /\ content_hash' = <<>>
  /\ filename' = <<>>
  /\ filepath' = <<>>
  /\ downloaded_size' = 0
  /\ created' = {}
  /\ netlog' = <<>>
  /\ url_checked' = FALSE
  /\ result' = "none"
  /\ before' = Snapshot
  /\ UNCHANGED <<downloaded_hashes, disk, admitted, clock, calls>>

\* download_image has returned to a caller that makes nothing of the result
Return ==
  /\ UNCHANGED Extra
  /\ ReturnToCaller

\* a second passes between two calls (time is counted from the first call)
Tick ==
  /\ UNCHANGED Extra
  /\ pc = "idle"
  /\ calls > 0
  /\ clock < MaxClock
  /\ clock' = clock + 1
  /\ UNCHANGED <<pc, url, server, Locals, World, netlog, url_checked, result, calls, before>>

Next ==
  \/ \E u \in Urls, s \in Servers : Call(u, s)
  \/ CheckUrl
  \/ HeadFails
  \/ HeadAnswers
  \/ \E e \in RequestFailures : GetFails(e)
  \/ GetAnswers
  \/ ReadChunk
  \/ \E e \in ReadFailures : ReadFails(e)
  \/ HashContent
  \/ ResolveName
  \/ CheckLength
  \/ OpenFile
  \/ OpenFails
  \/ WriteChunk
  \/ WriteFails
  \/ VerifyFile
  \/ \E o \in {"saved", "unopened", "torn"} : SaveMetadata(o)
  \/ Return
  \/ Tick

Spec == Init /\ [][Next]_vars

\* ------------------------------------------------- crashes and restarts
\* the URLs and answers of the runs that are cut short and started again
ledger_url == Url("https", "example.com", <<"/">> \o metadata_name)
RunUrls == {Url("https", "example.com", <<"/">> \o cat_png), ledger_url}
RunServers ==
  { Answer(200, MkHeaders({"Content-Type", "Content-Length"}, png, Str(Len(SmallBody)), <<>>),
           SmallBody),
    Answer(200, MkHeaders({"Content-Type"}, png, <<>>, <<>>), FullBody) }

\* a directory whose metadata file holds bytes that are not text
Garbled == Put(NoFiles, metadata_file, Binary)
RunDisks == InitDisks \cup {Garbled}

\* __init__ on any of the directories, the read of the metadata file failing or not
InitRuns ==
  /\ disk \in RunDisks
  /\ \E readable \in BOOLEAN :
       /\ downloaded_hashes = load_download_history(disk, readable)
       /\ startup = startup_kind(disk, readable)
       /\ pc = IF load_download_history_raises(disk, readable) THEN "startup-failed" ELSE "idle"
  /\ restarts = 0
  /\ appended = Range(downloaded_hashes)
  /\ filed = Range(load_download_history(disk, TRUE))
  /\ other = NoCall
  /\ batch = NoBatch
  /\ url = NoUrl
  /\ server = NoResponse
  /\ response = NoResponse
  /\ bytes_read = 0
  /\ content_hash = <<>>
  /\ filename = <<>>
  /\ filepath = <<>>
  /\ downloaded_size = 0
  /\ created = {}
  /\ netlog = <<>>
  /\ url_checked = FALSE
  /\ result = "none"
  /\ clock = 0
  /\ calls = 0
  /\ admitted = {}
  /\ before = [ledger |-> downloaded_hashes, disk |-> disk, admitted |-> {}]

\* the process ends at any point, killed or not; what is on disk stays
Crash ==
  /\ pc \notin {"crashed", "startup-failed"}
  /\ pc' = "crashed"
  /\ UNCHANGED <<url, server, Locals, World, netlog, url_checked, result, clock, calls, before,
                 Extra>>

\* the process dies inside save_download_metadata: open(..., 'w') has emptied the
\* file and json.dump has written none or a part of the document
CrashInSave ==
  /\ pc = "save"
  /\ pc' = "crashed"
  /\ disk' = Put(disk, metadata_file, Torn)
  /\ UNCHANGED <<url, server, Locals, downloaded_hashes, admitted, created, netlog, url_checked,
                 result, clock, calls, before, Extra>>

\* the program is started again: UbuntuImageFetcher() on the directory as it is
Restart(readable) ==
  /\ pc \in {"crashed", "startup-failed"}
  /\ restarts < MaxRestarts
  /\ restarts' = restarts + 1
  /\ downloaded_hashes' = load_download_history(disk, readable)
  /\ startup' = startup_kind(disk, readable)
  /\ pc' = IF load_download_history_raises(disk, readable) THEN "startup-failed" ELSE "idle"
  /\ url' = NoUrl
  /\ server' = NoResponse
  /\ response' = NoResponse
  /\ bytes_read' = 0
  /\ content_hash' = <<>>
  /\ filename' = <<>>
  /\ filepath' = <<>>
  /\ downloaded_size' = 0
  /\ created' = {}
  /\ netlog' = <<>>
  /\ url_checked' = FALSE
  /\ result' = "none"
  /\ admitted' = {}
  /\ before' = [ledger |-> downloaded_hashes', disk |-> disk, admitted |-> {}]
  /\ UNCHANGED <<disk, clock, calls, appended, filed, other, batch>>

NextRuns ==
  \/ \E u \in RunUrls, s \in RunServers : Call(u, s)
  \/ CheckUrl
  \/ HeadFails
  \/ HeadAnswers
  \/ \E e \in RequestFailures : GetFails(e)
  \/ GetAnswers
  \/ ReadChunk
  \/ \E e \in ReadFailures : ReadFails(e)
  \/ HashContent
  \/ ResolveName
  \/ CheckLength
  \/ OpenFile
  \/ OpenFails
  \/ WriteChunk
  \/ WriteFails
  \/ VerifyFile
  \/ \E o \in {"saved", "unopened", "torn"} : SaveMetadata(o)
  \/ Return
  \/ Crash
  \/ CrashInSave
  \/ \E readable \in BOOLEAN : Restart(readable)

SpecRuns == InitRuns /\ [][NextRuns]_vars

\* ------------------------------------------------------ multiple_urls_mode
\* the URLs that may be entered and the answers of their servers
BatchUrls ==
  { Url("https", "example.com", <<"/">> \o cat_png),
    Url("ftp", "example.com", <<"/">> \o cat_png) }
BatchServers ==
  { Answer(200, MkHeaders({"Content-Type", "Content-Length"}, png, Str(Len(SmallBody)), <<>>),
           SmallBody),
    Answer(404, MkHeaders({"Content-Type"}, html, <<>>, <<>>), SmallBody) }
BatchInputs ==
  UNION {[1..n -> BatchUrls] : n \in 0..Min(MaxBatch, MaxCalls)}

\* every call counted, whatever it returned
count_every_call(successful, returned) == successful + 1

\* if self.download_image(url, batch_mode=True): successful += 1
count_successful(successful, returned) == IF returned THEN successful + 1 ELSE successful

\* the URLs have been entered; with none the method returns at once
EnterUrls(us) ==
  /\ pc = "idle"
  /\ calls = 0
  /\ batch = NoBatch
  /\ batch' = [urls |-> us, pos |-> 1, successful |-> 0, results |-> <<>>,
               finished |-> us = <<>>]
  /\ UNCHANGED <<pc, url, server, Locals, World, netlog, url_checked, result, clock, calls,
                 before, startup, restarts, appended, filed, other>>

\* for i, url in enumerate(urls, 1): self.download_image(url, batch_mode=True)
BatchCall(s) ==
  /\ ~batch.finished
  /\ batch.pos \in 1..Len(batch.urls)
  /\ Call(batch.urls[batch.pos], s)

\* the call has returned into the loop: the counter, then the next URL
BatchReturn ==
  /\ batch.pos \in 1..Len(batch.urls)
  /\ batch' = [batch EXCEPT
                 !.successful = count_successful(batch.successful, result = "admitted"),
                 !.results = Append(batch.results, [url |-> url, returned |-> result = "admitted"]),
                 !.pos = batch.pos + 1]
  /\ ReturnToCaller
  /\ UNCHANGED <<startup, restarts, appended, filed, other>>

\* the loop is over: the summary is printed
BatchSummary ==
  /\ pc = "idle"
  /\ ~batch.finished
  /\ batch.pos = Len(batch.urls) + 1
  /\ batch' = [batch EXCEPT !.finished = TRUE]
  /\ UNCHANGED <<pc, url, server, Locals, World, netlog, url_checked, result, clock, calls,
                 before, startup, restarts, appended, filed, other>>

NextBatch ==
  \/ \E us \in BatchInputs : EnterUrls(us)
  \/ \E s \in BatchServers : BatchCall(s)
  \/ CheckUrl
  \/ HeadFails
  \/ HeadAnswers
  \/ \E e \in RequestFailures : GetFails(e)
  \/ GetAnswers
  \/ ReadChunk
  \/ \E e \in ReadFailures : ReadFails(e)
  \/ HashContent
  \/ ResolveName
  \/ CheckLength
  \/ OpenFile
  \/ OpenFails
  \/ WriteChunk
  \/ WriteFails
  \/ VerifyFile
  \/ \E o \in {"saved", "unopened", "torn"} : SaveMetadata(o)
  \/ BatchReturn
  \/ BatchSummary

\* the program runs on: a step that can be taken is taken
SpecBatch == Init /\ [][NextBatch]_vars /\ WF_vars(NextBatch)

\* ------------------------------------- two calls on one fetcher, interleaved
\* download_image holds no lock: a second call on the same fetcher (another thread)
\* takes its steps between the steps of the first.  The second call is followed
\* through the statements that touch the ledger and the directory, for a URL that is
\* accepted and a server whose answer passes every validation.
ConcUrls == {Url("https", "example.com", <<"/">> \o cat_png)}
ConcServers ==
  { Answer(200, MkHeaders({"Content-Type", "Content-Length"}, png, Str(Len(SmallBody)), <<>>),
           SmallBody),
    Answer(200, MkHeaders({"Content-Type"}, png, <<>>, <<>>), FullBody) }

\* the second call is made and gets as far as the body of the GET
OtherCall(u, s) ==
  /\ other = NoCall
  /\ calls < MaxCalls
  /\ calls' = calls + 1
  /\ other' = [NoCall EXCEPT !.pc = "hash", !.url = u, !.headers = s.headers, !.body = s.body]
  /\ UNCHANGED <<pc, url, server, Locals, World, netlog, url_checked, result, clock, before,
                 startup, restarts, appended, filed, batch>>

\* content_hash = self.calculate_content_hash(response); if self.is_duplicate(...)
OtherHashContent ==
  /\ other.pc = "hash"
  /\ LET h == calculate_content_hash(other.body)
     IN other' = IF is_duplicate(h, other.url)
                 THEN [other EXCEPT !.pc = "done", !.result = "duplicate", !.content_hash = h,
                                    !.seen = downloaded_hashes]
                 ELSE [other EXCEPT !.pc = "write", !.content_hash = h,
                                    !.seen = downloaded_hashes]
  /\ UNCHANGED <<pc, url, server, Locals, World, netlog, url_checked, result, clock, calls,
                 before, startup, restarts, appended, filed, batch>>

\* the file name, the free path, and the body written to it
OtherWriteFile ==
  /\ other.pc = "write"
  /\ LET path == get_unique_filepath(extract_filename(other.url, other.headers, clock))
     IN /\ disk' = Put(disk, path, Bytes(other.body))
        /\ other' = [other EXCEPT !.pc = "save", !.filepath = path]
  /\ UNCHANGED <<pc, url, server, Locals, downloaded_hashes, admitted, created, netlog,
                 url_checked, result, clock, calls, before, startup, restarts, appended, filed,
                 batch>>

\* save_download_metadata of the second call, and return True
OtherSaveMetadata ==
  /\ other.pc = "save"
  /\ LET metadata == Entry(other.content_hash, other.url, other.filepath,
                           Len(disk[other.filepath].data), clock)
     IN /\ downloaded_hashes' = Append(downloaded_hashes, metadata)
        /\ disk' = Put(disk, metadata_file, Json(downloaded_hashes'))
        /\ appended' = appended \cup {metadata}
        /\ filed' = filed \cup Range(downloaded_hashes')
  /\ admitted' = admitted \cup {other.body}
  /\ other' = [other EXCEPT !.pc = "done", !.result = "admitted"]
  /\ UNCHANGED <<pc, url, server, Locals, created, netlog, url_checked, result, clock, calls,
                 before, startup, restarts, batch>>

\* the second call has returned
OtherReturn ==
  /\ other.pc = "done"
  /\ other' = NoCall
  /\ UNCHANGED <<pc, url, server, Locals, World, netlog, url_checked, result, clock, calls,
                 before, startup, restarts, appended, filed, batch>>

NextConc ==
  \/ \E u \in ConcUrls, s \in ConcServers : Call(u, s)
  \/ CheckUrl
  \/ HeadFails
  \/ HeadAnswers
  \/ \E e \in RequestFailures : GetFails(e)
  \/ GetAnswers
  \/ ReadChunk
  \/ \E e \in ReadFailures : ReadFails(e)
  \/ HashContent
  \/ ResolveName
  \/ CheckLength
  \/ OpenFile
  \/ OpenFails
  \/ WriteChunk
  \/ WriteFails
  \/ VerifyFile
  \/ \E o \in {"saved", "unopened", "torn"} : SaveMetadata(o)
  \/ Return
  \/ \E u \in ConcUrls, s \in ConcServers : OtherCall(u, s)
  \/ OtherHashContent
  \/ OtherWriteFile
  \/ OtherSaveMetadata
  \/ OtherReturn

SpecConc == Init /\ [][NextConc]_vars

\* ---------------------------------------------- the helpers on their own
\* is_valid_url and extract_filename applied to a wide range of arguments
LongName(n) == [i \in 1..n |-> IF i = n - 3 THEN "." ELSE "a"]

FnSchemes == {"http", "https", "HTTP", "ftp", "file", ""}
FnHosts ==
  {"example.com", "localhost", "LOCALHOST", "127.0.0.1", "0.0.0.0",
   "127.0.0.2", "127.1.2.3", "::1"}
FnPaths ==
  { <<>>,
    <<"/">>,
    <<"/">> \o cat_png,
    <<"/", "i", "m", "g">>,
    <<"/", "a", ":", "b", ".", "p", "n", "g">>,
    <<"/", "a", "\\", "b", ".", "p", "n", "g">>,
    <<"/", "a", ".", ".", "b", ".", "p", "n", "g">>,
    <<"/", "x", "/", ".", ".">>,
    <<"/">> \o LongName(name_limit - 1),
    <<"/">> \o LongName(name_limit) }
FnDispositions ==
  { safe_disposition,
    unsafe_disposition,
    <<"attachment; ", "filename=", "\"", "d", ".", "p", "n", "g", "\"", ";", " size=1">>,
    <<"attachment; ", "filename=", "a", "|", "b", ".", "g", "i", "f">>,
    <<"attachment; ", "filename=", "\"", "\"">>,
    <<"inline">>,
    <<"attachment; ", "filename=">> \o LongName(name_limit) }
FnTypes == {png, <<"image/gif">>, <<"IMAGE/PNG", ";", " charset=binary">>, html}

FnUrls == {Url(sc, ho, pa) : sc \in FnSchemes, ho \in {"example.com"}, pa \in FnPaths}
            \cup {Url(sc, ho, <<"/">> \o cat_png) : sc \in FnSchemes, ho \in FnHosts}
FnHeaders ==
  {MkHeaders(S, ct, <<>>, cd) :
     S \in SUBSET {"Content-Type", "Content-Disposition"}, ct \in FnTypes, cd \in FnDispositions}

\* is_valid_url reads scheme and host only, extract_filename path and headers only:
\* every URL without headers, and every path with every header set
FnArguments ==
  {<<u, NoHeaders>> : u \in FnUrls}
    \cup {<<Url("https", "example.com", pa), h>> : pa \in FnPaths, h \in FnHeaders}

\* directories get_unique_filepath may find: the name free, taken, taken with its
\* first numbered names, taken with a gap in the numbered names
FnDisks ==
  LET file(name) == path_join(download_dir, name)
      cat(k) == file(<<"c", "a", "t", "_">> \o Str(k) \o <<".", "p", "n", "g">>)
      taken == Put(Put(NoFiles, file(cat_png), Bytes(SmallBody)),
                   file(<<"d", ".", "p", "n", "g">>), Bytes(SmallBody))
  IN { NoFiles,
       taken,
       Put(taken, cat(1), Bytes(SmallBody)),
       Put(taken, cat(2), Bytes(SmallBody)),
       Put(Put(taken, cat(1), Bytes(SmallBody)), cat(2), Bytes(FullBody)) }

InitFn ==
  /\ pc = "fn"
  /\ \E a \in FnArguments : url = a[1] /\ server = Answer(200, a[2], EmptyBody)
  /\ clock \in 0..MaxClock
  /\ disk \in FnDisks
  /\ downloaded_hashes = <<>>
  /\ startup = "missing"
  /\ restarts = 0
  /\ appended = {}
  /\ filed = {}
  /\ other = NoCall
  /\ batch = NoBatch
  /\ response = NoResponse
  /\ bytes_read = 0
  /\ content_hash = <<>>
  /\ filename = <<>>
  /\ filepath = <<>>
  /\ downloaded_size = 0
  /\ created = {}
  /\ netlog = <<>>
  /\ url_checked = FALSE
  /\ result = "none"
  /\ calls = 0
  /\ admitted = {}
  /\ before = [ledger |-> <<>>, disk |-> disk, admitted |-> {}]

\* is_valid_url(url)
ApplyIsValidUrl ==
  /\ UNCHANGED Extra
  /\ pc = "fn"
  /\ pc' = "fn_url"
  /\ url_checked' = TRUE
  /\ result' = IF is_valid_url(url) THEN "valid" ELSE "invalid-url"
  /\ UNCHANGED <<Locals, World, Frame, netlog>>

\* extract_filename(url, response)
ApplyExtractFilename ==
  /\ UNCHANGED Extra
  /\ pc = "fn"
  /\ pc' = "fn_name"
  /\ filename' = extract_filename(url, server.headers, clock)
  /\ UNCHANGED <<response, bytes_read, content_hash, filepath, downloaded_size,
                 World, Frame, netlog, url_checked, result>>

\* get_unique_filepath(filename)
ApplyGetUniqueFilepath ==
  /\ UNCHANGED Extra
  /\ pc = "fn_name"
  /\ pc' = "fn_path"
  /\ filepath' = get_unique_filepath(filename)
  /\ UNCHANGED <<response, bytes_read, content_hash, filename, downloaded_size,
                 World, Frame, netlog, url_checked, result>>

\* the caller creates the file at the path it was given: open(filepath, 'wb')
ApplyCreateFile ==
  /\ UNCHANGED Extra
  /\ pc = "fn_path"
  /\ pc' = "fn_created"
  /\ disk' = Put(disk, filepath, Bytes(<<>>))
  /\ created' = created \cup {filepath}
  /\ UNCHANGED <<Locals, downloaded_hashes, admitted, Frame, netlog, url_checked, result>>

NextFn ==
  \/ ApplyIsValidUrl
  \/ ApplyExtractFilename
  \/ ApplyGetUniqueFilepath
  \/ ApplyCreateFile

SpecFn == InitFn /\ [][NextFn]_vars

\* ----------------------------------------------------------------- claims
Returned == pc = "done"
ReturnedTrue == Returned /\ result = "admitted"

\* C1: once a body has been admitted by this fetcher, a later call whose response
\* body is byte-identical is never admitted, whatever its URL: it changes neither
\* the ledger nor the files, and when it gets as far as the duplicate check it
\* returns False as a duplicate.
C1_IdenticalBodyRejected ==
  (Returned /\ server.body \in before.admitted) =>
     /\ result # "admitted"
     /\ downloaded_hashes = before.ledger
     /\ disk = before.disk
     /\ (content_hash # <<>> => result = "duplicate")

\* the second fetch of an admitted body, from another URL, ends as a duplicate
C1_Witness ==
  /\ Returned
  /\ server.body \in before.admitted
  /\ result = "duplicate"
  /\ \E i \in 1..Len(downloaded_hashes) :
       downloaded_hashes[i].hash = content_hash /\ downloaded_hashes[i].url # url

\* C2: the in-memory ledger never holds two entries with the same hash.
C2_NoTwoEntriesShareHash ==
  \A i, j \in 1..Len(downloaded_hashes) :
    i # j => downloaded_hashes[i].hash # downloaded_hashes[j].hash

\* a call has appended an entry to a ledger that already held one
C2_Witness ==
  /\ ReturnedTrue
  /\ Len(before.ledger) >= 1
  /\ Len(downloaded_hashes) = Len(before.ledger) + 1

\* C7: a request is issued only after is_valid_url has been evaluated and has
\* accepted the URL; a URL whose scheme is not http/https or whose host is
\* localhost, 127.0.0.1 or 0.0.0.0 sees no request at all.
C7_NoRequestBeforeUrlCheck ==
  netlog # <<>> =>
     /\ url_checked
     /\ Lower(url.scheme) \in {"http", "https"}
     /\ Lower(url.host) \notin {"localhost", "127.0.0.1", "0.0.0.0"}

\* a call for a localhost URL has returned without any request
C7_Witness ==
  /\ Returned
  /\ url.host = "localhost"
  /\ url_checked
  /\ result = "invalid-url"
  /\ netlog = <<>>

\* the answer declares a Content-Length above the ceiling
DeclaredTooLarge ==
  /\ "Content-Length" \in DOMAIN server.headers
  /\ IsIntLiteral(server.headers["Content-Length"])
  /\ ParseInt(server.headers["Content-Length"]) > max_file_size

\* the running count of the write loop has passed the ceiling
StreamedTooLarge == downloaded_size > max_file_size

\* the call has left a file it opened for writing
LeftFile == \E path \in created : path \in DOMAIN disk

\* C3: when the declared Content-Length or the byte count of the write loop exceeds
\* max_file_size, download_image returns False and no file created by the call is
\* left; a declared excess creates no file at all, and it ends as too-large unless
\* the request failed, the status was an error or the content type was refused
\* first; an excess found while streaming always ends as too-large.
C3_OversizeRejectedNoFile ==
  (Returned /\ (DeclaredTooLarge \/ StreamedTooLarge)) =>
     /\ result # "admitted"
     /\ ~LeftFile
     /\ (DeclaredTooLarge => created = {})
     /\ (DeclaredTooLarge /\ netlog # <<>> =>
           result \in {"too-large", "content-type", "http-status"} \cup RequestFailures)
     /\ (StreamedTooLarge => result = "too-large")

\* a body longer than declared passed the ceiling in the write loop and its file is gone
C3_Witness ==
  /\ Returned
  /\ StreamedTooLarge
  /\ ~DeclaredTooLarge
  /\ created # {}
  /\ ~LeftFile
  /\ result = "too-large"

\* C4: a call that ends in an error after it opened its file for writing has
\* removed that file when it returns.
C4_PartialFileRemovedOnError ==
  (Returned /\ created # {} /\ result \in {"io-error", "unexpected"} \cup RequestFailures)
     => ~LeftFile

\* C5: the body bytes one call reads never exceed max_file_size plus one chunk, at
\* any step of the pipeline, hashing included.
C5_ReadNeverPassesCeiling == bytes_read <= max_file_size + chunk_size

\* C6: for a valid URL whose server answers with a non-2xx status, the call ends
\* with the http-status failure, whatever the headers of the answer.
C6_ErrorStatusEndsAsHttpStatus ==
  (Returned /\ url_checked /\ result # "invalid-url"
     /\ server.status \notin 200..299 /\ result \notin RequestFailures)
     => result = "http-status"

\* C9: a Content-Length that is present but no integer never makes the call fail.
C9_UnparseableLengthIgnored ==
  (Returned /\ "Content-Length" \in DOMAIN server.headers
     /\ ~IsIntLiteral(server.headers["Content-Length"]))
     => result # "unexpected"

\* hosts that name the local machine: the three the code lists and the literal
\* loopback addresses (127.0.0.0/8 and ::1) among the model's hosts
LoopbackHosts ==
  {"localhost", "127.0.0.1", "0.0.0.0", "127.0.0.2", "127.1.2.3", "::1"}

\* C8: is_valid_url rejects every URL whose host is a loopback or local address,
\* any literal loopback IP included.
C8_LoopbackHostRejected ==
  (pc = "fn_url" /\ Lower(url.host) \in LoopbackHosts) => result = "invalid-url"

\* the predicate of is_safe_filename, restated character by character
SafeName(f) ==
  /\ \A i \in 1..Len(f) : f[i] \notin {"/", "\\", ":", "*", "?", "\"", "<", ">", "|"}
  /\ \A i \in 1..(Len(f) - 1) : ~(f[i] = "." /\ f[i + 1] = ".")
  /\ Len(f) <= 254

\* image_<timestamp><ext> or safe_image_<timestamp>.jpg, stamped with the current time
TimestampName(f) ==
  \E prefix \in {<<"i","m","a","g","e","_">>, <<"s","a","f","e","_","i","m","a","g","e","_">>} :
    LET head == prefix \o strftime(clock)
    IN Len(f) > Len(head) /\ SubSeq(f, 1, Len(head)) = head

\* the candidates extract_filename examines for the current arguments: the
\* Content-Disposition filename when there is one, and the last segment of the URL
\* path when it has an extension and the header did not settle the name
HeaderCandidate ==
  LET cd == HeaderGet(server.headers, "Content-Disposition", <<>>)
  IN IF Contains(cd, <<"filename=">>) /\ disposition_filename(cd) # <<>>
     THEN {disposition_filename(cd)} ELSE {}

UrlCandidate ==
  IF (\E c \in HeaderCandidate : SafeName(c)) \/ ~Contains(basename(url.path), <<".">>)
  THEN {} ELSE {basename(url.path)}

UnsafeCandidates == {c \in HeaderCandidate \cup UrlCandidate : ~SafeName(c)}

GeneratedName ==
  <<"i","m","a","g","e","_">> \o strftime(clock)
    \o get_extension_from_content_type(media_type(server.headers))
DefaultName ==
  <<"s","a","f","e","_","i","m","a","g","e","_">> \o strftime(clock) \o <<".", "j", "p", "g">>

\* the last segment of the URL path, when it has an extension
UrlSegment ==
  IF Contains(basename(url.path), <<".">>) THEN {basename(url.path)} ELSE {}

NumberedPath(k) ==
  path_join(download_dir,
            splitext(filename)[1] \o <<"_">> \o Str(k) \o splitext(filename)[2])

\* C12: get_unique_filepath never returns a path at which a file exists: it is
\* directory/filename when that is free, otherwise the first free stem_k.ext with
\* k counted up from 1; against an unchanged directory a second call gives the
\* same path, and once a file is created there the next call gives another path,
\* the files that were there being untouched.
C12_UniquePathIsFirstFree ==
  /\ pc = "fn_path" =>
       /\ filepath \notin DOMAIN disk
       /\ IF path_join(download_dir, filename) \notin DOMAIN disk
          THEN filepath = path_join(download_dir, filename)
          ELSE \E k \in 1..(Cardinality(DOMAIN disk) + 1) :
                 /\ filepath = NumberedPath(k)
                 /\ \A j \in 1..(k - 1) : NumberedPath(j) \in DOMAIN disk
       /\ get_unique_filepath(filename) = filepath
  /\ pc = "fn_created" =>
       /\ get_unique_filepath(filename) # filepath
       /\ get_unique_filepath(filename) \notin DOMAIN disk
       /\ \A path \in DOMAIN before.disk : disk[path] = before.disk[path]

\* the name and its first numbered name were taken and the second was returned
C12_Witness ==
  /\ pc = "fn_created"
  /\ path_join(download_dir, filename) \in DOMAIN before.disk
  /\ NumberedPath(1) \in DOMAIN before.disk
  /\ filepath = NumberedPath(2)
  /\ get_unique_filepath(filename) = NumberedPath(3)

\* ------------------------------------------------------------------- C13
\* C13: after a crash at any point of a run, the crash inside save_download_metadata
\* included, the fetcher started next loads every entry that a call which returned
\* had appended and written to the ledger file; only the entry whose append was in
\* flight may be missing.
C13_RestartLoadsAppendedEntries ==
  (restarts > 0 /\ pc \notin {"crashed", "startup-failed"} /\ startup # "unreadable")
    => (appended \cap filed) \subseteq Range(downloaded_hashes)

\* ------------------------------------------------------------------- C14
\* the entries of the ledger file of directory d
FileEntries(d) ==
  IF metadata_file \in DOMAIN d /\ d[metadata_file].kind = "json"
  THEN Range(d[metadata_file].entries)
  ELSE {}

\* entries of the ledger in memory that the ledger file does not hold
StaleEntries(ledger, d) == Range(ledger) \ FileEntries(d)

\* the step out of save_download_metadata left the ledger file without the new entry
SaveFailed ==
  /\ pc = "save"
  /\ pc' = "done"
  /\ \/ metadata_file \notin DOMAIN disk'
     \/ disk'[metadata_file].kind # "json"
     \/ metadata_file \in DOMAIN disk /\ disk'[metadata_file] = disk[metadata_file]

\* C14: when the write of the ledger file fails in save_download_metadata, the call
\* still returns True, the downloaded file stays on disk and the new entry is the last
\* of the ledger in memory; and a later call of the same run whose body hashes to an
\* entry that only the memory holds ends as a duplicate.
C14_FailedSaveKeepsFileAndEntry ==
  /\ [][SaveFailed =>
          /\ result' = "admitted"
          /\ filepath \in DOMAIN disk' /\ disk'[filepath] = Bytes(response.body)
          /\ Len(downloaded_hashes') = Len(downloaded_hashes) + 1
          /\ SubSeq(downloaded_hashes', 1, Len(downloaded_hashes)) = downloaded_hashes
          /\ downloaded_hashes'[Len(downloaded_hashes')].hash = content_hash
          /\ downloaded_hashes'[Len(downloaded_hashes')].filepath = filepath]_vars
  /\ []((content_hash # <<>>
          /\ \E e \in StaleEntries(before.ledger, before.disk) : e.hash = content_hash)
        => (Returned /\ result = "duplicate"))

C14_Witness ==
  /\ Returned /\ result = "duplicate"
  /\ \E e \in StaleEntries(before.ledger, before.disk) : e.hash = content_hash
  /\ filepath = <<>>
  /\ \E e \in StaleEntries(before.ledger, before.disk) :
       e.filepath \in DOMAIN disk /\ disk[e.filepath] = Bytes(server.body)

\* ------------------------------------------------------------------- C15
\* the outcomes that are rejections by policy or validation
Rejections == {"invalid-url", "content-type", "too-large", "empty", "duplicate"}

\* C15: a call that ends in a rejection (invalid URL, content type not allowed, too
\* large, empty body, duplicate) leaves the ledger in memory, the ledger file and the
\* files of the download directory as they were when it was called; an empty body
\* leaves no file and no entry.
C15_RejectionLeavesLedgerAndFiles ==
  (Returned /\ result \in Rejections) =>
     /\ downloaded_hashes = before.ledger
     /\ disk = before.disk
     /\ admitted = before.admitted

\* an empty body was rejected after its file had been created next to an admitted one
C15_Witness ==
  /\ Returned /\ result = "empty"
  /\ created # {}
  /\ before.ledger # <<>>
  /\ disk = before.disk

\* ------------------------------------------------------------------- C16
\* the call that returned has rewritten the ledger file with its entry appended
AppendedToFile ==
  /\ ReturnedTrue
  /\ metadata_file \in DOMAIN disk
  /\ disk[metadata_file] = Json(downloaded_hashes)

\* C16: no ledger entry is removed or changed: over calls and restarts, a restart whose
\* read of the ledger file fails included, every entry the ledger file has held is
\* in the ledger file, field for field, after every later append.
C16_FiledEntriesStayInFile == AppendedToFile => filed \subseteq FileEntries(disk)

\* ------------------------------------------------------------------- C17
\* C17: load_download_history never fails startup: with the ledger file missing, or
\* unreadable, or not decodable as JSON, the fetcher starts with an empty ledger, and
\* content recorded in the file that was not loaded is not rejected as a duplicate
\* unless this run admitted it.
C17_StartupNeverFails ==
  /\ pc # "startup-failed"
  /\ (startup # "loaded" /\ admitted = {}) => downloaded_hashes = <<>>
  /\ (startup # "loaded" /\ Returned /\ result = "duplicate") => server.body \in before.admitted

\* ------------------------------------------------------------------- C18
\* the outcomes of a call that failed
Failures ==
  RequestFailures \cup {"http-status", "io-error", "unexpected"}

BatchEntered == batch.pos > 0
BatchDone == batch.finished

\* C18: a failure of download_image ends that call only: it returns False, and in
\* multiple_urls_mode every URL entered is processed once, in the order entered, the
\* counter being the number of calls that returned True; the batch comes to its end.
C18_BatchProcessesEveryUrlOnce ==
  /\ [](BatchEntered =>
          /\ Len(batch.results) = (IF pc = "idle" THEN batch.pos - 1
                                   ELSE Min(batch.pos - 1, Len(batch.urls)))
          /\ \A i \in 1..Len(batch.results) : batch.results[i].url = batch.urls[i]
          /\ batch.successful =
               Cardinality({i \in 1..Len(batch.results) : batch.results[i].returned})
          /\ (Returned /\ result \in Failures) => batch.pos \in 1..Len(batch.urls)
          /\ BatchDone => Len(batch.results) = Len(batch.urls))
  /\ BatchEntered ~> BatchDone

C18_Witness ==
  /\ BatchDone
  /\ Len(batch.urls) = 2
  /\ ~batch.results[1].returned
  /\ batch.results[2].returned
  /\ batch.successful = 1

\* ------------------------------------------------------------------- C19
\* the entries of a ledger that carry hash h
WithHash(ledger, h) == {i \in 1..Len(ledger) : ledger[i].hash = h}

\* C19 as claimed: the duplicate check and the append are one atomic section per
\* digest, so that with two calls for the same bytes interleaved at most one is
\* admitted and the ledger never holds two entries of one hash.
C19_InterleavedCallsAdmitOnce ==
  \A i \in 1..Len(downloaded_hashes) :
    Cardinality(WithHash(downloaded_hashes, downloaded_hashes[i].hash)) = 1

\* C19: an append made while the ledger is as it was when the call read it (no other
\* call has appended in between, as when calls run one after another) adds a hash
\* that the ledger does not hold, so that of calls for the same bytes run one after
\* another at most one is admitted.
C19_UninterruptedCallsAdmitOnce ==
  /\ [][(pc = "save" /\ pc' = "done" /\ downloaded_hashes = before.ledger) =>
          /\ WithHash(downloaded_hashes, content_hash) = {}
          /\ Cardinality(WithHash(downloaded_hashes', content_hash)) = 1]_vars
  /\ [][(other.pc = "save" /\ other'.pc = "done" /\ downloaded_hashes = other.seen) =>
          /\ WithHash(downloaded_hashes, other.content_hash) = {}
          /\ Cardinality(WithHash(downloaded_hashes', other.content_hash)) = 1]_vars

\* two calls for the same bytes, one after the other: the second is a duplicate
C19_Witness ==
  /\ other.pc = "done" /\ other.result = "duplicate"
  /\ pc = "idle"
  /\ other.body \in admitted
  /\ Cardinality(WithHash(downloaded_hashes, other.content_hash)) = 1
  /\ Len(downloaded_hashes) > Len(load_download_history(EarlierRun, TRUE))

\* ------------------------------------------------------------------- C20
\* the run began on an empty directory and no fetcher was started after the first
FromEmptyDirectory == restarts = 0 /\ startup = "missing" /\ pc \notin {"crashed", "startup-failed"}

\* C20: after sequential calls that began on an empty ledger and directory, every
\* ledger entry names a path in the download directory where a file of the entry's
\* file_size, greater than 0, still holds the admitted bytes; distinct entries name
\* distinct paths.
C20_EntriesNameTheirFiles ==
  FromEmptyDirectory =>
    /\ \A e \in Range(downloaded_hashes) :
         /\ SubSeq(e.filepath, 1, Len(download_dir) + 1) = download_dir \o <<"/">>
         /\ e.filepath \in DOMAIN disk
         /\ e.file_size > 0
         /\ disk[e.filepath].kind = "bytes"
         /\ Len(disk[e.filepath].data) = e.file_size
         /\ calculate_content_hash(disk[e.filepath].data) = e.hash
    /\ \A i, j \in 1..Len(downloaded_hashes) :
         i # j => downloaded_hashes[i].filepath # downloaded_hashes[j].filepath
====
